---- MODULE Spec2Model ----
(***************************************************************************)
(* A model of sev-iocuddle: the error taxonomy and numeric classifier      *)
(* (src/lib.rs), the two command records and their encapsulate operation   *)
(* (src/sev.rs, src/kvm.rs), the KVM ioctl registry (src/kvm.rs) and the   *)
(* raw load/save primitives (src/util.rs).                                 *)
(*                                                                         *)
(* Four specifications share the module's variables:                       *)
(*   Spec          the life of one command record: build, dispatch,        *)
(*                 encapsulate, discard                                    *)
(*   SpecClassify  the numeric classifier and the two Display impls        *)
(*   SpecRegistry  calls through the three registered ioctls              *)
(*   SpecStream    save and load over an in-memory byte stream             *)
(***************************************************************************)
EXTENDS Integers, Sequences, FiniteSets, TLC

VARIABLES
    errno,      \* the OS's last-reported status (what last_os_error reads)
    \* ---- command record life cycle
    phase,      \* "idle" | "built" | "dispatched" | "encapsulated"
    variant,    \* "none" | "sev" | "kvm": which Command struct is alive
    ctor,       \* "none" | "from" | "from_mut": the constructor used
    argin,      \* the constructor's arguments
    cmd,        \* the Command record (NoCmd when none is alive)
    ioerr,      \* the std::io::Error handed to encapsulate
    result,     \* what encapsulate returned
    \* ---- classifier
    cpc,        \* "idle" | "classified" | "shown"
    code,       \* the u32 handed to Indeterminate::<Error>::from
    out,        \* the Indeterminate<Error> it returned
    shown,      \* the Display rendering of out
    \* ---- ioctl registry
    registered, \* encrypted regions the hypervisor currently holds
    last,       \* the last call made through a registry entry
    \* ---- byte stream
    stream,     \* the bytes written so far (a Vec<u8>)
    rpos,       \* the reader's position in stream
    saved,      \* the values saved, in order
    loads       \* the outcome of each load, in order

vars == << errno, phase, variant, ctor, argin, cmd, ioerr, result,
           cpc, code, out, shown, registered, last,
           stream, rpos, saved, loads >>

cmdVars      == << phase, variant, ctor, argin, cmd, ioerr, result >>
classifyVars == << cpc, code, out, shown >>
registryVars == << registered, last >>
streamVars   == << stream, rpos, saved, loads >>

(***************************************************************************)
(* Bounds of the model.                                                    *)
(***************************************************************************)
\* firmware codes 0..MaxCode are enumerated, together with HighCode
MaxCode == 27
\* OS statuses 0..MaxErrno
MaxErrno == 3
\* device descriptors 0..MaxFd
MaxFd == 1

\* a code far above the table: 2^31 - 1, the largest integer TLC holds
HighCode == 65536 * 32767 + 65535

Codes == (0..MaxCode) \cup {HighCode}
OsStatuses == 0..MaxErrno

(***************************************************************************)
(* std::io::Error as this crate meets it: an OS status wrapped by          *)
(* last_os_error (lib.rs:171) or by the dispatch collaborator.             *)
(***************************************************************************)
from_raw_os_error(n) == << "Os", n >>

last_os_error(status) == from_raw_os_error(status)

IoErrors == { from_raw_os_error(n) : n \in OsStatuses }

(***************************************************************************)
(* error::Indeterminate and error::Error (lib.rs:20-112).  An Error is a   *)
(* tuple whose head is the variant's name; IoError carries its io::Error.  *)
(***************************************************************************)
Known(e) == << "Known", e >>

Unknown == << "Unknown" >>

IoError(e) == << "IoError", e >>

\* the variants of enum Error in declaration order
Error ==
    << "IoError",
       "InvalidPlatformState", "InvalidGuestState", "InvalidConfig",
       "InvalidLen", "AlreadyOwned", "InvalidCertificate", "PolicyFailure",
       "Inactive", "InvalidAddress", "BadSignature", "BadMeasurement",
       "AsidOwned", "InvalidAsid", "WbinvdRequired", "DfFlushRequired",
       "InvalidGuest", "InvalidCommand", "Active", "HardwarePlatform",
       "HardwareUnsafe", "Unsupported", "InvalidParam", "ResourceLimit",
       "SecureDataInvalid" >>

\* impl Display for Error
Display_Error(e) ==
    CASE e[1] = "IoError" -> "I/O Error"
      [] e[1] = "InvalidPlatformState" -> "Invalid platform state"
      [] e[1] = "InvalidGuestState" -> "Invalid guest state"
      [] e[1] = "InvalidConfig" -> "Platform configuration invalid"
      [] e[1] = "InvalidLen" -> "Memory buffer too small"
      [] e[1] = "AlreadyOwned" -> "Platform is already owned"
      [] e[1] = "InvalidCertificate" -> "Invalid certificate"
      [] e[1] = "PolicyFailure" -> "Policy failure"
      [] e[1] = "Inactive" -> "Guest is inactive"
      [] e[1] = "InvalidAddress" -> "Provided address is invalid"
      [] e[1] = "BadSignature" -> "Provided signature is invalid"
      [] e[1] = "BadMeasurement" -> "Provided measurement is invalid"
      [] e[1] = "AsidOwned" -> "ASID is already owned"
      [] e[1] = "InvalidAsid" -> "ASID is invalid"
      [] e[1] = "WbinvdRequired" -> "WBINVD instruction required"
      [] e[1] = "DfFlushRequired" -> "DF_FLUSH invocation required"
      [] e[1] = "InvalidGuest" -> "Guest handle is invalid"
      [] e[1] = "InvalidCommand" -> "Issued command is invalid"
      [] e[1] = "Active" -> "Guest is active"
      [] e[1] = "HardwarePlatform" ->
            "Hardware condition occured, safe to re-allocate parameter buffers"
      [] e[1] = "HardwareUnsafe" ->
            "Hardware condition occured, unsafe to re-allocate parameter buffers"
      [] e[1] = "Unsupported" -> "Feature is unsupported"
      [] e[1] = "InvalidParam" -> "Given parameter is invalid"
      [] e[1] = "ResourceLimit" ->
            "SEV firmware has run out of required resources to carry out command"
      [] e[1] = "SecureDataInvalid" ->
            "SEV platform observed a failed integrity check"

\* impl From<std::io::Error> for Error
From_io_Error_for_Error(error) == IoError(error)

\* impl From<std::io::Error> for Indeterminate<Error>
From_io_Error(error) == Known(From_io_Error_for_Error(error))

\* From<u32> with its table shifted by one entry against the enumeration
From_u32_shifted(error, status) ==
    IF error = 0 THEN Known(From_io_Error_for_Error(last_os_error(status)))
    ELSE IF error \in 1..24 THEN Known(<< Error[error] >>)
    ELSE Unknown

\* From<u32> whose fallback arm names the last variant instead of Unknown
From_u32_clamped(error, status) ==
    IF error = 0 THEN Known(From_io_Error_for_Error(last_os_error(status)))
    ELSE IF error \in 1..24 THEN Known(<< Error[error + 1] >>)
    ELSE Known(<< "SecureDataInvalid" >>)

\* From<u32> without the arm for 0
From_u32_no_zero(error, status) ==
    IF error \in 1..24 THEN Known(<< Error[error + 1] >>)
    ELSE Unknown

\* impl From<u32> for Indeterminate<Error>; status is what the OS last reported
From_u32(error, status) ==
    CASE error = 0 -> Known(From_io_Error_for_Error(last_os_error(status)))
      [] error = 1 -> Known(<< "InvalidPlatformState" >>)
      [] error = 2 -> Known(<< "InvalidGuestState" >>)
      [] error = 3 -> Known(<< "InvalidConfig" >>)
      [] error = 4 -> Known(<< "InvalidLen" >>)
      [] error = 5 -> Known(<< "AlreadyOwned" >>)
      [] error = 6 -> Known(<< "InvalidCertificate" >>)
      [] error = 7 -> Known(<< "PolicyFailure" >>)
      [] error = 8 -> Known(<< "Inactive" >>)
      [] error = 9 -> Known(<< "InvalidAddress" >>)
      [] error = 10 -> Known(<< "BadSignature" >>)
      [] error = 11 -> Known(<< "BadMeasurement" >>)
      [] error = 12 -> Known(<< "AsidOwned" >>)
      [] error = 13 -> Known(<< "InvalidAsid" >>)
      [] error = 14 -> Known(<< "WbinvdRequired" >>)
      [] error = 15 -> Known(<< "DfFlushRequired" >>)
      [] error = 16 -> Known(<< "InvalidGuest" >>)
      [] error = 17 -> Known(<< "InvalidCommand" >>)
      [] error = 18 -> Known(<< "Active" >>)
      [] error = 19 -> Known(<< "HardwarePlatform" >>)
      [] error = 20 -> Known(<< "HardwareUnsafe" >>)
      [] error = 21 -> Known(<< "Unsupported" >>)
      [] error = 22 -> Known(<< "InvalidParam" >>)
      [] error = 23 -> Known(<< "ResourceLimit" >>)
      [] error = 24 -> Known(<< "SecureDataInvalid" >>)
      [] OTHER -> Unknown

\* impl Display for Indeterminate<Error>
Display_Indeterminate(i) ==
    IF i[1] = "Known" THEN "Known error: " \o Display_Error(i[2])
    ELSE "Unknown error"

(***************************************************************************)
(* Command-kind markers (trait sev::Id, sev.rs:13-17) and the arguments    *)
(* a record is built over.                                                 *)
(***************************************************************************)
\* sample registrations made with impl_const_id!: argument type |-> ID
impl_const_id == [ Reset |-> 0, Status |-> 1, GetId |-> 8 ]

ArgTypes == DOMAIN impl_const_id

\* <T as Id>::ID
ID(T) == impl_const_id[T]

\* addresses at which the caller's argument value may live
ArgAddrs == { 4096, 8192 }

\* a borrowed argument: its type and the address it lives at
Subcmds == [ ty : ArgTypes, addr : ArgAddrs ]

\* the open device: AsRawFd::as_raw_fd gives its numeric descriptor
Devices == [ fd : 0..MaxFd ]

as_raw_fd(sev) == sev.fd

\* `as u32` of a RawFd (an i32): a non-negative value is kept, a negative
\* one wraps to i + 2^32.  The descriptor of an open device is not negative.
as_u32(i) ==
    IF i >= 0 THEN i
    ELSE ((i + (65536 * 32767 + 65535)) + (65536 * 32767 + 65535)) + 2

\* `subcmd as *mut T as u64` / `subcmd as *const T as u64`
as_u64(subcmd) == subcmd.addr

NoCmd == [ none |-> TRUE ]

NoArg == [ none |-> TRUE ]

NoIoErr == << "NoIoErr" >>

NoResult == << "NoResult" >>

(***************************************************************************)
(* sev::Command (sev.rs:19-67)                                             *)
(***************************************************************************)
sev_from_mut(subcmd) ==
    [ code |-> ID(subcmd.ty), data |-> as_u64(subcmd), error |-> 0 ]

sev_from(subcmd) ==
    [ code |-> ID(subcmd.ty), data |-> as_u64(subcmd), error |-> 0 ]

\* encapsulate that hands the error field to the numeric classifier always
sev_encapsulate_numeric(self, err, status) ==
    From_u32(self.error, status)

sev_encapsulate(self, err, status) ==
    IF self.error = 0 THEN From_io_Error(err)
    ELSE From_u32(self.error, status)

(***************************************************************************)
(* kvm::Command (kvm.rs:28-77)                                             *)
(***************************************************************************)
kvm_from_mut(sev, subcmd) ==
    [ code |-> ID(subcmd.ty), data |-> as_u64(subcmd), error |-> 0,
      sev_fd |-> as_u32(as_raw_fd(sev)) ]

\* from with the code and data fields exchanged
kvm_from_exchanged(sev, subcmd) ==
    [ code |-> as_u64(subcmd), data |-> ID(subcmd.ty), error |-> 0,
      sev_fd |-> as_u32(as_raw_fd(sev)) ]

kvm_from(sev, subcmd) ==
    [ code |-> ID(subcmd.ty), data |-> as_u64(subcmd), error |-> 0,
      sev_fd |-> as_u32(as_raw_fd(sev)) ]

\* encapsulate that never consults the error field
kvm_encapsulate_transport(self, err, status) ==
    From_io_Error(err)

kvm_encapsulate(self, err, status) ==
    IF self.error = 0 THEN From_io_Error(err)
    ELSE From_u32(self.error, status)

(***************************************************************************)
(* The life of one command record.                                         *)
(***************************************************************************)
ClassifyIdle ==
    /\ cpc = "idle" /\ code = 0 /\ out = NoResult /\ shown = ""

RegistryIdle ==
    /\ registered = {} /\ last = [ op |-> "none" ]

StreamIdle ==
    /\ stream = << >> /\ rpos = 0 /\ saved = << >> /\ loads = << >>

CmdIdle ==
    /\ phase = "idle" /\ variant = "none" /\ ctor = "none"
    /\ argin = NoArg /\ cmd = NoCmd /\ ioerr = NoIoErr /\ result = NoResult

Init ==
    /\ errno \in OsStatuses
    /\ CmdIdle /\ ClassifyIdle /\ RegistryIdle /\ StreamIdle

\* sev::Command::from_mut(&mut subcmd)
SevFromMut(subcmd) ==
    /\ phase = "idle"
    /\ phase' = "built" /\ variant' = "sev" /\ ctor' = "from_mut"
    /\ argin' = [ subcmd |-> subcmd ]
    /\ cmd' = sev_from_mut(subcmd)
    /\ UNCHANGED << errno, ioerr, result, classifyVars, registryVars, streamVars >>

\* sev::Command::from(&subcmd)
SevFrom(subcmd) ==
    /\ phase = "idle"
    /\ phase' = "built" /\ variant' = "sev" /\ ctor' = "from"
    /\ argin' = [ subcmd |-> subcmd ]
    /\ cmd' = sev_from(subcmd)
    /\ UNCHANGED << errno, ioerr, result, classifyVars, registryVars, streamVars >>

\* kvm::Command::from_mut(&mut sev, &mut subcmd)
KvmFromMut(sev, subcmd) ==
    /\ phase = "idle"
    /\ phase' = "built" /\ variant' = "kvm" /\ ctor' = "from_mut"
    /\ argin' = [ sev |-> sev, subcmd |-> subcmd ]
    /\ cmd' = kvm_from_mut(sev, subcmd)
    /\ UNCHANGED << errno, ioerr, result, classifyVars, registryVars, streamVars >>

\* kvm::Command::from(&mut sev, &subcmd)
KvmFrom(sev, subcmd) ==
    /\ phase = "idle"
    /\ phase' = "built" /\ variant' = "kvm" /\ ctor' = "from"
    /\ argin' = [ sev |-> sev, subcmd |-> subcmd ]
    /\ cmd' = kvm_from(sev, subcmd)
    /\ UNCHANGED << errno, ioerr, result, classifyVars, registryVars, streamVars >>

\* The external dispatch collaborator fails: the driver or the firmware may
\* have written a code into the record's error field (fw = 0: a pure
\* transport failure), the OS status is set and returned as an io::Error.
DispatchFails(fw, status) ==
    /\ phase = "built"
    /\ phase' = "dispatched"
    /\ cmd' = [ cmd EXCEPT !.error = fw ]
    /\ errno' = status
    /\ ioerr' = last_os_error(status)
    /\ UNCHANGED << variant, ctor, argin, result, classifyVars, registryVars, streamVars >>

\* The external dispatch collaborator succeeds: nothing is left to classify.
DispatchSucceeds ==
    /\ phase = "built"
    /\ phase' = "returned"
    /\ UNCHANGED << errno, variant, ctor, argin, cmd, ioerr, result,
                    classifyVars, registryVars, streamVars >>

\* Any other system call of the process changes the last-reported status.
ErrnoChange(status) ==
    /\ phase \in { "built", "dispatched" }
    /\ status # errno
    /\ errno' = status
    /\ UNCHANGED << cmdVars, classifyVars, registryVars, streamVars >>

\* sev::Command::encapsulate(&self, err)
SevEncapsulate ==
    /\ phase = "dispatched" /\ variant = "sev"
    /\ phase' = "encapsulated"
    /\ result' = sev_encapsulate(cmd, ioerr, errno)
    /\ UNCHANGED << errno, variant, ctor, argin, cmd, ioerr,
                    classifyVars, registryVars, streamVars >>

\* kvm::Command::encapsulate(&self, err)
KvmEncapsulate ==
    /\ phase = "dispatched" /\ variant = "kvm"
    /\ phase' = "encapsulated"
    /\ result' = kvm_encapsulate(cmd, ioerr, errno)
    /\ UNCHANGED << errno, variant, ctor, argin, cmd, ioerr,
                    classifyVars, registryVars, streamVars >>

\* The record goes out of scope after its single dispatch call.
Discard ==
    /\ phase \in { "returned", "encapsulated" }
    /\ phase' = "idle" /\ variant' = "none" /\ ctor' = "none"
    /\ argin' = NoArg /\ cmd' = NoCmd /\ ioerr' = NoIoErr /\ result' = NoResult
    /\ UNCHANGED << errno, classifyVars, registryVars, streamVars >>

Next ==
    \/ \E subcmd \in Subcmds : SevFromMut(subcmd)
    \/ \E subcmd \in Subcmds : SevFrom(subcmd)
    \/ \E sev \in Devices, subcmd \in Subcmds : KvmFromMut(sev, subcmd)
    \/ \E sev \in Devices, subcmd \in Subcmds : KvmFrom(sev, subcmd)
    \/ \E fw \in Codes, status \in OsStatuses : DispatchFails(fw, status)
    \/ DispatchSucceeds
    \/ \E status \in OsStatuses : ErrnoChange(status)
    \/ SevEncapsulate
    \/ KvmEncapsulate
    \/ Discard

Spec == Init /\ [][Next]_vars

(***************************************************************************)
(* Claims about the command record.                                        *)
(***************************************************************************)
\* the variant the Error enumeration documents for a firmware code
VariantOf(c) == << Error[c + 1] >>

\* C1: for both record variants encapsulate obeys the two-tier rule: a
\* nonzero error field yields the classification of that code (Known of the
\* variant for 1..24, Unknown otherwise) whatever the transport error is; a
\* zero error field yields Known(IoError(err)) of exactly the transport
\* error passed in, never Unknown.
C1_TwoTier ==
    phase = "encapsulated" =>
        /\ variant \in { "sev", "kvm" }
        /\ (cmd.error \in 1..24 => result = Known(VariantOf(cmd.error)))
        /\ (cmd.error # 0 /\ cmd.error \notin 1..24 => result = Unknown)
        /\ (cmd.error = 0 => result = Known(IoError(ioerr)) /\ result # Unknown)

C1_Witness ==
    /\ phase = "encapsulated" /\ variant = "kvm"
    /\ cmd.error = 22 /\ ioerr = from_raw_os_error(1)
    /\ result = Known(<< "InvalidParam" >>)

\* C9 (state part): a live record carries the marker ID of its argument's
\* type, the argument's address, the device's descriptor (hypervisor
\* variant) and, until dispatched, error 0; from and from_mut agree.
C9_Fields ==
    cmd # NoCmd =>
        /\ cmd.code = ID(argin.subcmd.ty)
        /\ cmd.data = argin.subcmd.addr
        /\ (phase = "built" => cmd.error = 0)
        /\ variant = "sev" =>
              /\ DOMAIN cmd = { "code", "data", "error" }
              /\ [ cmd EXCEPT !.error = 0 ] = sev_from(argin.subcmd)
              /\ sev_from(argin.subcmd) = sev_from_mut(argin.subcmd)
        /\ variant = "kvm" =>
              /\ DOMAIN cmd = { "code", "data", "error", "sev_fd" }
              /\ cmd.sev_fd = argin.sev.fd
              /\ [ cmd EXCEPT !.error = 0 ] = kvm_from(argin.sev, argin.subcmd)
              /\ kvm_from(argin.sev, argin.subcmd)
                    = kvm_from_mut(argin.sev, argin.subcmd)

\* C9 (step part): while a record lives no step changes code, data or the
\* descriptor, and only the dispatch step changes error.
C9_Step ==
    (cmd # NoCmd /\ cmd' # NoCmd) =>
        /\ cmd'.code = cmd.code
        /\ cmd'.data = cmd.data
        /\ (variant = "kvm" => cmd'.sev_fd = cmd.sev_fd)
        /\ (cmd'.error # cmd.error => phase = "built" /\ phase' = "dispatched")

\* C9: record lifecycle invariant: the fields are those the constructor's
\* arguments determine, identically for from and from_mut, and after
\* construction nothing but the dispatch collaborator's write to error
\* changes the record (encapsulate changes nothing).
C9_Lifecycle == [] C9_Fields /\ [][C9_Step]_vars

C9_Witness ==
    /\ phase = "encapsulated" /\ variant = "kvm" /\ ctor = "from"
    /\ cmd.error = 5 /\ cmd.sev_fd = 1 /\ cmd.code = 8 /\ cmd.data = 8192

\* encapsulate of the live record's variant
encapsulate_of(v, self, err, status) ==
    IF v = "sev" THEN sev_encapsulate(self, err, status)
    ELSE kvm_encapsulate(self, err, status)

\* C10: the outcome of encapsulate depends on the error field and the
\* transport error only: whatever status the OS last reported, the same
\* record and the same transport error give the result that was returned.
C10_StatusIndependent ==
    phase = "encapsulated" =>
        \A status \in OsStatuses :
            encapsulate_of(variant, cmd, ioerr, status) = result

C10_Witness ==
    /\ phase = "encapsulated" /\ variant = "sev"
    /\ cmd.error = 0 /\ ioerr = from_raw_os_error(2) /\ errno = 3
    /\ result = Known(IoError(from_raw_os_error(2)))

(***************************************************************************)
(* The numeric classifier on its own.                                      *)
(***************************************************************************)
\* Indeterminate::<Error>::from(c)
Classify(c) ==
    /\ cpc = "idle"
    /\ cpc' = "classified"
    /\ code' = c
    /\ out' = From_u32(c, errno)
    /\ UNCHANGED << errno, shown, cmdVars, registryVars, streamVars >>

\* format!("{}", out)
Display ==
    /\ cpc = "classified"
    /\ cpc' = "shown"
    /\ shown' = Display_Indeterminate(out)
    /\ UNCHANGED << errno, code, out, cmdVars, registryVars, streamVars >>

\* the value is dropped
Drop ==
    /\ cpc = "shown"
    /\ cpc' = "idle" /\ code' = 0 /\ out' = NoResult /\ shown' = ""
    /\ UNCHANGED << errno, cmdVars, registryVars, streamVars >>

\* Any other system call of the process changes the last-reported status.
StatusChange(status) ==
    /\ status # errno
    /\ errno' = status
    /\ UNCHANGED << classifyVars, cmdVars, registryVars, streamVars >>

NextClassify ==
    \/ \E c \in Codes : Classify(c)
    \/ Display
    \/ Drop
    \/ \E status \in OsStatuses : StatusChange(status)

SpecClassify == Init /\ [][NextClassify]_vars

\* C2: a code c in 1..24 classifies as Known of the c-th firmware variant
\* of the enumeration, never IoError; no other code in 1..24 gives the same
\* variant; its rendering is that variant's phrase, and the phrases of
\* distinct variants differ.
C2_KnownTable ==
    (cpc # "idle" /\ code \in 1..24) =>
        /\ out = Known(VariantOf(code))
        /\ out[2][1] # "IoError"
        /\ \A d \in (1..24) \ { code }, s \in OsStatuses :
              /\ From_u32(d, s) # out
              /\ Display_Error(From_u32(d, s)[2]) # Display_Error(out[2])
        /\ Display_Error(out[2]) # Display_Error(IoError(last_os_error(errno)))
        /\ cpc = "shown" =>
              shown = "Known error: " \o Display_Error(VariantOf(code))

C2_Witness ==
    /\ cpc = "shown" /\ code = 20 /\ out = Known(<< "HardwareUnsafe" >>)
    /\ shown = "Known error: Hardware condition occured, unsafe to re-allocate parameter buffers"

\* C3: a code outside 0..24 classifies as Unknown, never as Known, and its
\* rendering "Unknown error" differs from the rendering of every code in
\* 0..24, which starts with "Known error: ".
C3_UnknownOutside ==
    (cpc # "idle" /\ code \notin 0..24) =>
        /\ out = Unknown
        /\ out[1] # "Known"
        /\ \A d \in 0..24, s \in OsStatuses : From_u32(d, s) # out
        /\ cpc = "shown" =>
              /\ shown = "Unknown error"
              /\ \A d \in 0..24, s \in OsStatuses :
                    LET r == Display_Indeterminate(From_u32(d, s)) IN
                    /\ r # shown
                    /\ r = "Known error: " \o Display_Error(From_u32(d, s)[2])

C3_Witness ==
    /\ cpc = "shown" /\ code = 25 /\ out = Unknown /\ shown = "Unknown error"

\* C4: classifying 0 returns Known(IoError(s)) for the status s the OS last
\* reported at the moment of the call: not Unknown and not one of the 24
\* firmware variants.
C4_Step ==
    (cpc = "idle" /\ cpc' = "classified" /\ code' = 0) =>
        /\ out' = Known(IoError(last_os_error(errno)))
        /\ out' # Unknown
        /\ \A c \in 1..24 : out' # Known(VariantOf(c))

C4_ZeroDefers == [][C4_Step]_vars

C4_Witness ==
    /\ cpc = "classified" /\ code = 0 /\ errno = 1
    /\ out = Known(IoError(from_raw_os_error(3)))

(***************************************************************************)
(* The ioctl registry (kvm.rs:11-26, sev.rs:11-12).  An Ioctl is the       *)
(* request the kernel sees (group, number, the direction and size encoded  *)
(* in it) together with the direction D and argument type T the call is    *)
(* typed with.                                                             *)
(***************************************************************************)
\* bytes the longest borrowed range spans
MaxLen == 2

size_of_arg(T) ==
    CASE T = "c_ulong" -> 8
      [] T = "KvmEncRegion" -> 16

Group_new(g) == [ group |-> g ]

\* Group::read::<T>(nr): Ioctl<Read, &T>
Group_read(grp, nr, T) ==
    [ group |-> grp.group, nr |-> nr, encoded |-> "Read",
      size |-> size_of_arg(T), D |-> "Read", T |-> << "&", T >> ]

\* Group::write_read::<T>(nr): Ioctl<WriteRead, &T>
Group_write_read(grp, nr, T) ==
    [ group |-> grp.group, nr |-> nr, encoded |-> "WriteRead",
      size |-> size_of_arg(T), D |-> "WriteRead", T |-> << "&", T >> ]

\* Ioctl::lie::<E, U>(): the same request, retyped
lie(ioctl, E, U) == [ ioctl EXCEPT !.D = E, !.T = U ]

\* sev::SEV = Group::new(b'S')
SEV == Group_new(83)

\* kvm::KVM = Group::new(0xAE)
KVM == Group_new(174)

\* the encryption operation bound to the SEV group
ENC_OP_on_SEV == Group_write_read(SEV, 186, "c_ulong")

ENC_OP == Group_write_read(KVM, 186, "c_ulong")

\* the region registration as Group::read declares it, without lie()
ENC_REG_REGION_as_declared == Group_read(KVM, 187, "KvmEncRegion")

ENC_REG_REGION ==
    lie(Group_read(KVM, 187, "KvmEncRegion"), "Write", << "&", "KvmEncRegion" >>)

ENC_UNREG_REGION ==
    lie(Group_read(KVM, 188, "KvmEncRegion"), "Write", << "&", "KvmEncRegion" >>)

\* the named constants of the crate that bind an operation
Registry ==
    [ ENC_OP |-> ENC_OP,
      ENC_REG_REGION |-> ENC_REG_REGION,
      ENC_UNREG_REGION |-> ENC_UNREG_REGION ]

\* borrowed byte ranges: where they start and how long they are
Slices == [ ptr : ArgAddrs, len : 0..MaxLen ]

\* KvmEncRegion::new(data)
KvmEncRegion_new(data) == [ addr |-> data.ptr, size |-> data.len ]

\* how Ioctl<D, &T>::ioctl takes its argument
Borrow(D) ==
    CASE D = "Write" -> "shared"
      [] D = "WriteRead" -> "mut"
      [] D = "Read" -> "out"

\* the record of one call through a registry entry
Call(name, data) ==
    LET e == Registry[name] IN
    [ op |-> name, group |-> e.group, nr |-> e.nr, encoded |-> e.encoded,
      D |-> e.D, T |-> e.T, borrow |-> Borrow(e.D), data |-> data ]

\* ENC_OP.ioctl(&mut vm, &mut (&mut cmd as *mut _ as c_ulong))
EncOp(addr) ==
    /\ last' = Call("ENC_OP", addr)
    /\ UNCHANGED << registered, errno, cmdVars, classifyVars, streamVars >>

\* ENC_REG_REGION.ioctl(&mut vm, &KvmEncRegion::new(data))
RegRegion(data) ==
    LET region == KvmEncRegion_new(data) IN
    /\ region \notin registered
    /\ last' = Call("ENC_REG_REGION", region)
    /\ registered' = IF last'.D = "Read" THEN registered
                     ELSE registered \cup { region }
    /\ UNCHANGED << errno, cmdVars, classifyVars, streamVars >>

\* ENC_UNREG_REGION.ioctl(&mut vm, &KvmEncRegion::new(data))
UnregRegion(data) ==
    LET region == KvmEncRegion_new(data) IN
    /\ region \in registered
    /\ last' = Call("ENC_UNREG_REGION", region)
    /\ registered' = IF last'.D = "Read" THEN registered
                     ELSE registered \ { region }
    /\ UNCHANGED << errno, cmdVars, classifyVars, streamVars >>

NextRegistry ==
    \/ \E addr \in ArgAddrs : EncOp(addr)
    \/ \E data \in Slices : RegRegion(data)
    \/ \E data \in Slices : UnregRegion(data)

SpecRegistry == Init /\ [][NextRegistry]_vars

\* the registry's operations bound to a group
OpsOf(grp) == { n \in DOMAIN Registry : Registry[n].group = grp.group }

\* C5: both region operations (0xBB and 0xBC in group 0xAE) are typed as
\* write-only transfers taking a shared reference to an encrypted-region
\* descriptor, although the request is the one the framework declares as a
\* read; neither is a read or a write-read operation.
C5_DirectionOverride ==
    last.op \in { "ENC_REG_REGION", "ENC_UNREG_REGION" } =>
        /\ last.D = "Write"
        /\ last.D \notin { "Read", "WriteRead" }
        /\ last.T = << "&", "KvmEncRegion" >>
        /\ last.borrow = "shared"
        /\ last.encoded = "Read"
        /\ last.group = 174
        /\ last.nr = (IF last.op = "ENC_REG_REGION" THEN 187 ELSE 188)
        /\ DOMAIN last.data = { "addr", "size" }

C5_Witness ==
    /\ last.op = "ENC_UNREG_REGION" /\ last.D = "Write" /\ last.nr = 188
    /\ last.data = [ addr |-> 4096, size |-> 2 ]
    /\ registered = { [ addr |-> 8192, size |-> 0 ] }

\* C6 as claimed: the single write-read encryption operation is bound to
\* the platform-family group, and the hypervisor-family group exposes
\* exactly the two region operations.
C6_Claimed ==
    last.op = "ENC_OP" =>
        /\ last.D = "WriteRead"
        /\ last.group = SEV.group
        /\ OpsOf(KVM) = { "ENC_REG_REGION", "ENC_UNREG_REGION" }

\* C6 as amended: the single write-read encryption operation (0xBA) is
\* bound to the hypervisor-family group 0xAE, which so exposes three
\* operations, the encryption operation and the two region operations; the
\* platform-family group 'S' binds no operation.
C6_Amended ==
    last.op # "none" =>
        /\ (last.D = "WriteRead") = (last.op = "ENC_OP")
        /\ last.group = KVM.group
        /\ last.group # SEV.group
        /\ last.op = "ENC_OP" =>
              /\ last.nr = 186
              /\ last.T = << "&", "c_ulong" >>
              /\ last.borrow = "mut"
        /\ { n \in DOMAIN Registry : Registry[n].D = "WriteRead" } = { "ENC_OP" }
        /\ OpsOf(KVM) = { "ENC_OP", "ENC_REG_REGION", "ENC_UNREG_REGION" }
        /\ OpsOf(SEV) = {}

C6_Witness ==
    /\ last.op = "ENC_OP" /\ last.D = "WriteRead" /\ last.group = 174
    /\ last.nr = 186 /\ last.data = 8192

(***************************************************************************)
(* The raw transfer primitives (util.rs:25-44) over an in-memory stream:   *)
(* a Vec<u8> the writer appends to and a reader positioned in it.          *)
(***************************************************************************)
\* values saved at most
MaxSaves == 2
\* loads made at most
MaxLoads == 2

\* fixed-layout Copy types: (), u8, u16 and sev::Version { major, minor }
Types == { "Unit", "u8", "u16", "Version" }

\* size_of::<T>()
size_of(T) ==
    CASE T = "Unit" -> 0
      [] T = "u8" -> 1
      [] T = "u16" -> 2
      [] T = "Version" -> 2

\* sample values of each type
ValuesOf(T) ==
    CASE T = "Unit" -> { "unit" }
      [] T = "u8" -> { 0, 255 }
      [] T = "u16" -> { 258, 65280 }
      [] T = "Version" -> { [ major |-> 1, minor |-> 40 ],
                            [ major |-> 2, minor |-> 0 ] }

NoValue == "no value"

\* from_raw_parts(value as *const T as *const u8, size_of::<T>()): the
\* value's bytes as they lie in memory (x86-64, the only SEV target)
as_bytes(T, value) ==
    CASE T = "Unit" -> << >>
      [] T = "u8" -> << value >>
      [] T = "u16" -> << value % 256, value \div 256 >>
      [] T = "Version" -> << value.major, value.minor >>

\* MaybeUninit::<T>::assume_init over the bytes read
assume_init(T, bytes) ==
    CASE T = "Unit" -> "unit"
      [] T = "u8" -> bytes[1]
      [] T = "u16" -> bytes[1] + 256 * bytes[2]
      [] T = "Version" -> [ major |-> bytes[1], minor |-> bytes[2] ]

\* Write::write_all on a Vec<u8>
write_all(bytes, s) == bytes \o s

\* Read::read_exact(buf) with Len(buf) = n: fills buf, or fails with
\* UnexpectedEof having read an unspecified part of what was left
read_exact(bytes, pos, n) ==
    IF Len(bytes) - pos >= n
    THEN { [ ok |-> TRUE, err |-> "", buf |-> SubSeq(bytes, pos + 1, pos + n),
             pos |-> pos + n ] }
    ELSE { [ ok |-> FALSE, err |-> "UnexpectedEof", buf |-> << >>, pos |-> p ] :
             p \in pos..Len(bytes) }

\* save through a single Write::write that takes one byte and stops
save_one_write(bytes, T, value) ==
    LET s == as_bytes(T, value) IN
    bytes \o (IF Len(s) > 1 THEN SubSeq(s, 1, 1) ELSE s)

\* TypeSave::save
save(bytes, T, value) == write_all(bytes, as_bytes(T, value))

\* load that reads what is there and takes the storage as initialised
load_unchecked(bytes, pos, T) ==
    LET end == IF Len(bytes) - pos >= size_of(T) THEN pos + size_of(T)
               ELSE Len(bytes)
        got == SubSeq(bytes, pos + 1, end)
        pad == [ i \in 1..(size_of(T) - Len(got)) |-> 0 ]
    IN  { [ ok |-> TRUE, err |-> "", value |-> assume_init(T, got \o pad),
            pos |-> end ] }

\* TypeLoad::load: the outcomes the reader allows
load(bytes, pos, T) ==
    { IF r.ok
      THEN [ ok |-> TRUE, err |-> "", value |-> assume_init(T, r.buf), pos |-> r.pos ]
      ELSE [ ok |-> FALSE, err |-> r.err, value |-> NoValue, pos |-> r.pos ] :
      r \in read_exact(bytes, pos, size_of(T)) }

\* writer.save(&value)
Save(T, value) ==
    /\ Len(saved) < MaxSaves
    /\ stream' = save(stream, T, value)
    /\ saved' = Append(saved, [ ty |-> T, value |-> value, at |-> Len(stream),
                                len |-> Len(stream') - Len(stream) ])
    /\ UNCHANGED << rpos, loads, errno, cmdVars, classifyVars, registryVars >>

\* reader.load::<T>()
Load(T) ==
    /\ Len(loads) < MaxLoads
    /\ \E r \in load(stream, rpos, T) :
          /\ rpos' = r.pos
          /\ loads' = Append(loads,
                 [ ty |-> T, ok |-> r.ok, err |-> r.err, value |-> r.value,
                   from |-> rpos, to |-> r.pos, avail |-> Len(stream) - rpos,
                   nsaved |-> Len(saved) ])
    /\ UNCHANGED << stream, saved, errno, cmdVars, classifyVars, registryVars >>

NextStream ==
    \/ \E T \in Types : \E value \in ValuesOf(T) : Save(T, value)
    \/ \E T \in Types : Load(T)

SpecStream == Init /\ [][NextStream]_vars

RECURSIVE SizeSum(_, _)
\* the sizes of the first n entries of a sequence of typed records, summed
SizeSum(seq, n) ==
    IF n = 0 THEN 0 ELSE SizeSum(seq, n - 1) + size_of(seq[n].ty)

\* every load so far asked for the type saved at its place, after that save
LoadsFollowSaves ==
    /\ Len(loads) <= Len(saved)
    /\ \A i \in 1..Len(loads) :
          loads[i].ty = saved[i].ty /\ i <= loads[i].nsaved

\* C7: each save appends exactly size_of(T) bytes, and loads that follow the
\* saves type for type succeed, consume exactly size_of(T) bytes each from
\* where the value was written and return the saved values in order, also
\* for the zero-sized type.
C7_RoundTrip ==
    /\ \A j \in 1..Len(saved) :
          /\ saved[j].len = size_of(saved[j].ty)
          /\ saved[j].at = SizeSum(saved, j - 1)
    /\ Len(stream) = SizeSum(saved, Len(saved))
    /\ LoadsFollowSaves =>
          /\ \A i \in 1..Len(loads) :
                /\ loads[i].ok
                /\ loads[i].value = saved[i].value
                /\ loads[i].from = saved[i].at
                /\ loads[i].to - loads[i].from = size_of(loads[i].ty)
          /\ rpos = SizeSum(loads, Len(loads))

C7_Witness ==
    /\ Len(saved) = 2 /\ Len(loads) = 2 /\ LoadsFollowSaves
    /\ saved[1].ty = "Unit" /\ saved[2].ty = "u16" /\ saved[2].value = 258
    /\ loads[1].value = "unit" /\ loads[2].value = 258
    /\ stream = << 2, 1 >> /\ rpos = 2

\* C8: a load that finds fewer than size_of(T) bytes left fails with the
\* short-read condition, returns no value, and moves the reader over none
\* but the bytes that were left, fewer than the size_of(T) it asked for.
C8_ShortRead ==
    \A i \in 1..Len(loads) :
        loads[i].avail < size_of(loads[i].ty) =>
            /\ ~ loads[i].ok
            /\ loads[i].err = "UnexpectedEof"
            /\ loads[i].value = NoValue
            /\ loads[i].from <= loads[i].to
            /\ loads[i].to - loads[i].from <= loads[i].avail
            /\ loads[i].to - loads[i].from < size_of(loads[i].ty)

C8_Witness ==
    /\ Len(loads) = 1 /\ stream = << 255 >>
    /\ loads[1].ty = "Version" /\ loads[1].avail = 1 /\ ~ loads[1].ok
    /\ loads[1].to = 1

====
